---- MODULE Spec2Model ----
(***************************************************************************)
(* The everestrs Runtime (src/everestrs/everestrs/src/lib.rs): the bridge   *)
(* between the C++ EVerest module handle (ffi::Module) and a Rust           *)
(* Subscriber.  The model follows the code statement by statement; every    *)
(* call that crosses the FFI boundary is one step, so that callbacks that   *)
(* the C++ side delivers on its own threads can interleave with it.         *)
(***************************************************************************)
EXTENDS Integers, Sequences, FiniteSets, TLC

(***************************************************************************)
(* serde_json values and their byte encoding.  A byte is a one-character    *)
(* string; a value is a record of one shape, whatever its kind:             *)
(*   k = "null" | "int" | "str" | "obj",  n the number, s the characters,   *)
(*   m the members of an object, a sequence of [key, val] records.          *)
(***************************************************************************)
JNull == [k |-> "null", n |-> 0, s |-> <<>>, m |-> <<>>]

JInt(n) == [k |-> "int", n |-> n, s |-> <<>>, m |-> <<>>]

JStr(s) == [k |-> "str", n |-> 0, s |-> s, m |-> <<>>]

JObj(m) == [k |-> "obj", n |-> 0, s |-> <<>>, m |-> m]

Member(key, val) == [key |-> key, val |-> val]

DigitChars == <<"0", "1", "2", "3", "4", "5", "6", "7", "8", "9">>

IsDigit(c) == \E d \in 1..10 : DigitChars[d] = c

DigitVal(c) == (CHOOSE d \in 1..10 : DigitChars[d] = c) - 1

RECURSIVE Itoa(_)
Itoa(n) == IF n < 10 THEN <<DigitChars[n + 1]>>
           ELSE Itoa(n \div 10) \o <<DigitChars[(n % 10) + 1]>>

RECURSIVE ToVec(_)
RECURSIVE MembersToVec(_)
\* serde_json::to_vec: the compact JSON text of a value.
ToVec(v) ==
    CASE v.k = "null" -> <<"n", "u", "l", "l">>
      [] v.k = "int"  -> Itoa(v.n)
      [] v.k = "str"  -> <<"\"">> \o v.s \o <<"\"">>
      [] v.k = "obj"  -> <<"{">> \o MembersToVec(v.m) \o <<"}">>

MembersToVec(m) ==
    IF m = <<>> THEN <<>>
    ELSE <<"\"">> \o m[1].key \o <<"\"", ":">> \o ToVec(m[1].val)
         \o (IF Len(m) > 1 THEN <<",">> \o MembersToVec(Tail(m)) ELSE <<>>)

\* A parse result: ok, the value, and the index of the first unread byte.
PFail == [ok |-> FALSE, v |-> JNull, next |-> 0]

POk(v, next) == [ok |-> TRUE, v |-> v, next |-> next]

At(b, i) == IF i >= 1 /\ i <= Len(b) THEN b[i] ELSE "EOF"

RECURSIVE DigitsEnd(_, _)
\* Index of the first byte at or after i that is not a digit.
DigitsEnd(b, i) == IF IsDigit(At(b, i)) THEN DigitsEnd(b, i + 1) ELSE i

RECURSIVE DigitsVal(_, _, _)
DigitsVal(b, i, j) ==
    IF j < i THEN 0 ELSE DigitsVal(b, i, j - 1) * 10 + DigitVal(b[j])

RECURSIVE QuoteAt(_, _)
\* Index of the first double quote at or after i, or 0 when there is none.
QuoteAt(b, i) ==
    IF i > Len(b) THEN 0
    ELSE IF b[i] = "\"" THEN i ELSE QuoteAt(b, i + 1)

ParseStr(b, i) ==
    IF At(b, i) # "\"" THEN PFail
    ELSE LET j == QuoteAt(b, i + 1)
         IN  IF j = 0 THEN PFail ELSE POk(JStr(SubSeq(b, i + 1, j - 1)), j + 1)

ParseNum(b, i) ==
    LET j == DigitsEnd(b, i)
    IN  IF j = i THEN PFail
        ELSE IF b[i] = "0" /\ j > i + 1 THEN POk(JInt(0), i + 1)
        ELSE POk(JInt(DigitsVal(b, i, j - 1)), j)

ParseNull(b, i) ==
    IF i + 3 <= Len(b) /\ SubSeq(b, i, i + 3) = <<"n", "u", "l", "l">>
    THEN POk(JNull, i + 4) ELSE PFail

RECURSIVE ParseValue(_, _)
RECURSIVE ParseMembers(_, _, _)
\* serde_json's parser on the bytes of b from index i on.
ParseValue(b, i) ==
    CASE At(b, i) = "n"  -> ParseNull(b, i)
      [] At(b, i) = "\"" -> ParseStr(b, i)
      [] IsDigit(At(b, i)) -> ParseNum(b, i)
      [] At(b, i) = "{"  ->
           IF At(b, i + 1) = "}" THEN POk(JObj(<<>>), i + 2)
           ELSE ParseMembers(b, i + 1, <<>>)
      [] OTHER -> PFail

\* key ":" value, then "," and more members or the closing brace.
ParseMembers(b, i, acc) ==
    LET key == ParseStr(b, i)
    IN  IF ~key.ok \/ At(b, key.next) # ":" THEN PFail
        ELSE LET val == ParseValue(b, key.next + 1)
                 got == Append(acc, Member(key.v.s, val.v))
             IN  IF ~val.ok THEN PFail
                 ELSE IF At(b, val.next) = "}" THEN POk(JObj(got), val.next + 1)
                 ELSE IF At(b, val.next) = "," THEN ParseMembers(b, val.next + 1, got)
                 ELSE PFail

\* serde_json::from_slice::<serde_json::Value>: the whole input is one value.
FromSlice(b) ==
    LET r == ParseValue(b, 1)
    IN  IF r.ok /\ r.next = Len(b) + 1 THEN POk(r.v, r.next) ELSE PFail

RECURSIVE LastOf(_, _, _)
\* The value a map holds for key after the members of m were inserted in turn
\* (a later duplicate replaces an earlier one); dflt when the key is absent.
LastOf(m, key, dflt) ==
    IF m = <<>> THEN dflt
    ELSE LET rest == LastOf(Tail(m), key, dflt)
         IN  IF rest # dflt THEN rest
             ELSE IF m[1].key = key THEN m[1].val ELSE dflt

Absent == [k |-> "absent", n |-> 0, s |-> <<>>, m |-> <<>>]

Keys(m) == {m[i].key : i \in 1..Len(m)}

\* from_slice::<HashMap<String, Value>>: only an object decodes, to the map
\* from its keys to their values.
FromSliceMap(b) ==
    LET r == FromSlice(b)
    IN  IF r.ok /\ r.v.k = "obj"
        THEN [ok |-> TRUE, map |-> [key \in Keys(r.v.m) |-> LastOf(r.v.m, key, Absent)]]
        ELSE [ok |-> FALSE, map |-> [key \in {} |-> Absent]]

(***************************************************************************)
(* The manifest and the interfaces the C++ side hands out.  A blob that     *)
(* does not deserialize has ok = FALSE.                                     *)
(***************************************************************************)
NoMap == [i \in {} |-> "-"]

ManifestOk(provides, requires) ==
    [ok |-> TRUE, provides |-> provides, requires |-> requires]

ManifestBad == [ok |-> FALSE, provides |-> NoMap, requires |-> NoMap]

\* The manifests a module may be started with.
ManifestBlobs ==
    { ManifestOk([i \in {"charger"} |-> "power"], NoMap),
      ManifestOk([i \in {"meter_a", "meter_b"} |-> "meter"], [i \in {"grid"} |-> "meter"]),
      ManifestOk([i \in {"charger"} |-> "power"], [i \in {"grid"} |-> "broken"]),
      ManifestBad }

InterfaceOk(cmds, vars) == [ok |-> TRUE, cmds |-> cmds, vars |-> vars]

\* What get_interface returns for an interface name.
InterfaceBlob(interface_name) ==
    CASE interface_name = "power" -> InterfaceOk({"start", "stop"}, {"status"})
      [] interface_name = "meter" -> InterfaceOk({"reset"}, {"reading"})
      [] OTHER -> [ok |-> FALSE, cmds |-> {}, vars |-> {}]

(***************************************************************************)
(* Bounds and the inputs the environment and the user code choose from.     *)
(***************************************************************************)
MaxSetCalls == 2

MaxDispatch == 1

MaxClient == 1

MaxConcurrent == 2

\* The Subscriber objects of the user code.
Handlers == {"h1", "h2"}

\* The threads of the C++ runtime that deliver callbacks.
Threads == {"t1", "t2"}

Callers == {"main"} \cup Threads

Charging == <<"C", "h", "a", "r", "g", "i", "n", "g">>

\* Payloads the C++ side delivers: encoded values and one that is no JSON.
Payloads ==
    { ToVec(JObj(<<Member(<<"x">>, JInt(7))>>)), ToVec(JInt(42)), <<"{">> }

\* What the C++ call_command may return: an encoded value and one that is no JSON.
Responses == { ToVec(JStr(<<"o", "k">>)), <<"{">> }

\* What the user's handle_command may return (Result<serde_json::Value>).
ROk(v) == [ok |-> TRUE, v |-> v, err |-> "-"]

RErr(e) == [ok |-> FALSE, v |-> JNull, err |-> e]

NoResult == [ok |-> FALSE, v |-> JNull, err |-> "none"]

Errors == {"MissingArgument", "InvalidArgument", "Internal"}

HandlerResults ==
    {ROk(JInt(42)), ROk(JStr(Charging))} \cup {RErr(e) : e \in Errors}

\* publish_variable and call_command invocations of the user code.
Publishes == {[impl |-> "charger", name |-> "status", val |-> JStr(Charging)]}

Commands == {[impl |-> "grid", name |-> "reset", val |-> JObj(<<Member(<<"x">>, JInt(7))>>)]}

VARIABLES
    manifest_json,  \* what ffi::Module::initialize returns
    sub_impl,       \* Runtime::sub_impl: "None" or the handler of the Weak
    owners,         \* the handlers whose owner still holds its Arc
    mpc,            \* where the thread that owns the Runtime is
    reg,            \* the loop state of set_subscriber
    calls,          \* the calls made on cpp_module, in order
    setResults,     \* how each finished set_subscriber call ended
    disp,           \* per C++ thread: the callback it is delivering
    last,           \* the callback that ended last, and how
    nDisp,          \* callbacks delivered so far
    ready_fired,    \* the ready callback was delivered
    client,         \* per caller: the call_command it is waiting in
    sent,           \* the publish_variable / call_command calls made on cpp_module
    done,           \* the publish_variable / call_command that ended last, and how
    nClient,        \* publish_variable / call_command calls so far
    proc,           \* "running" or "aborted"
    dropped         \* the fields of the Runtime that were dropped

vars == <<manifest_json, sub_impl, owners, mpc, reg, calls, setResults, disp, last,
          nDisp, ready_fired, client, sent, done, nClient, proc, dropped>>

Call(op, impl, name, blob) == [op |-> op, impl |-> impl, name |-> name, blob |-> blob]

NoArgs == [key \in {} |-> Absent]

IdleDisp ==
    [pc |-> "idle", kind |-> "none", impl |-> "-", name |-> "-", json |-> <<>>,
     sub |-> "None", himpl |-> "-", hname |-> "-", hmap |-> NoArgs, hval |-> Absent,
     ninv |-> 0, ncall |-> 0, hres |-> NoResult, out |-> "none", ret |-> <<>>]

NoClient ==
    [op |-> "none", impl |-> "-", name |-> "-", val |-> Absent, st |-> "none",
     blob |-> <<>>, ret |-> Absent]

NoReg == [todoP |-> {}, todoC |-> {}, todoR |-> {}, todoV |-> {}, cur |-> "-"]

Init ==
    /\ manifest_json \in ManifestBlobs
    /\ sub_impl = "None"
    /\ owners = Handlers
    /\ mpc = "idle"
    /\ reg = NoReg
    /\ calls = <<>>
    /\ setResults = <<>>
    /\ disp = [t \in Threads |-> IdleDisp]
    /\ last = IdleDisp
    /\ nDisp = 0
    /\ ready_fired = FALSE
    /\ client = [c \in Callers |-> NoClient]
    /\ sent = <<>>
    /\ done = NoClient
    /\ nClient = 0
    /\ proc = "running"
    /\ dropped = {}

\* An Arc of the handler exists: its owner's, or the one a dispatch got from
\* get_sub and still holds.
Alive(h) == h \in owners \/ \E t \in Threads : disp[t].sub = h

\* A panic on the thread that owns the Runtime unwinds out of the call; the
\* caller may catch it or let the process end.
MainPanic == proc' \in {"running", "aborted"}

(***************************************************************************)
(* Runtime::set_subscriber                                                  *)
(***************************************************************************)
\* self.sub_impl.is_some()
IsSomeNever == FALSE

IsSomeAfterReady ==
    sub_impl # "None" /\ \E i \in 1..Len(calls) : calls[i].op = "signal_ready"

IsSome == sub_impl # "None"

\* The statement set_subscriber goes to next, from what its loops have left.
FlowReadyFirst(r) ==
    IF r.todoC # {} THEN "cmds"
    ELSE IF r.todoP # {} THEN "provides"
    ELSE IF r.todoV # {} THEN "vars"
    ELSE "signal_ready"

Flow(r) ==
    IF r.todoC # {} THEN "cmds"
    ELSE IF r.todoP # {} THEN "provides"
    ELSE IF r.todoV # {} THEN "vars"
    ELSE IF r.todoR # {} THEN "requires"
    ELSE "signal_ready"

\* The names the two inner loops of set_subscriber walk: interface.cmds for an
\* entry of provides, interface.vars for an entry of requires.
InterfaceCmdsWrong(interface) == interface.cmds \cup interface.vars

InterfaceCmds(interface) == interface.cmds

InterfaceVarsWrong(interface) == interface.vars \cup interface.cmds

InterfaceVars(interface) == interface.vars

SetSubscriberUnset(h) ==
    /\ proc = "running" /\ dropped = {}
    /\ mpc = "idle" /\ Len(setResults) < MaxSetCalls
    /\ IF IsSome
       THEN /\ setResults' = Append(setResults, "noop")
            /\ UNCHANGED <<sub_impl, mpc>>
       ELSE /\ mpc' = "initialize"
            /\ UNCHANGED <<sub_impl, setResults>>
    /\ UNCHANGED <<manifest_json, owners, reg, calls, disp, last, nDisp,
                   ready_fired, client, sent, done, nClient, proc, dropped>>

SetSubscriberRebinds(h) ==
    /\ proc = "running" /\ dropped = {}
    /\ mpc = "idle" /\ Len(setResults) < MaxSetCalls
    /\ IF sub_impl = h
       THEN /\ setResults' = Append(setResults, "noop")
            /\ UNCHANGED <<sub_impl, mpc>>
       ELSE /\ sub_impl' = h
            /\ mpc' = "initialize"
            /\ UNCHANGED setResults
    /\ UNCHANGED <<manifest_json, owners, reg, calls, disp, last, nDisp,
                   ready_fired, client, sent, done, nClient, proc, dropped>>

SetSubscriber(h) ==
    /\ proc = "running" /\ dropped = {}
    /\ mpc = "idle" /\ Len(setResults) < MaxSetCalls
    /\ IF IsSome
       THEN /\ setResults' = Append(setResults, "noop")
            /\ UNCHANGED <<sub_impl, mpc>>
       ELSE /\ sub_impl' = h
            /\ mpc' = "initialize"
            /\ UNCHANGED setResults
    /\ UNCHANGED <<manifest_json, owners, reg, calls, disp, last, nDisp,
                   ready_fired, client, sent, done, nClient, proc, dropped>>

SetSubscriberPanics ==
    /\ mpc' = "idle"
    /\ reg' = NoReg
    /\ setResults' = Append(setResults, "panic")
    /\ MainPanic

Initialize ==
    /\ proc = "running" /\ mpc = "initialize"
    /\ calls' = Append(calls, Call("initialize", "-", "-", <<>>))
    /\ IF manifest_json.ok
       THEN LET r == [NoReg EXCEPT !.todoP = DOMAIN manifest_json.provides,
                                   !.todoR = DOMAIN manifest_json.requires]
            IN  /\ reg' = r
                /\ mpc' = Flow(r)
                /\ UNCHANGED <<setResults, proc>>
       ELSE SetSubscriberPanics
    /\ UNCHANGED <<manifest_json, sub_impl, owners, disp, last, nDisp,
                   ready_fired, client, sent, done, nClient, dropped>>

\* self.cpp_module.as_ref().unwrap().get_interface(interface_name): the calls
\* made on cpp_module once it is made.
GetInterfaceCached(interface_name) ==
    IF \E i \in 1..Len(calls) :
          calls[i].op = "get_interface" /\ calls[i].name = interface_name
    THEN calls
    ELSE Append(calls, Call("get_interface", "-", interface_name, <<>>))

GetInterface(interface_name) ==
    Append(calls, Call("get_interface", "-", interface_name, <<>>))

GetInterfaceProvides(implementation_id) ==
    /\ proc = "running" /\ mpc = "provides"
    /\ implementation_id \in reg.todoP
    /\ LET interface_name == manifest_json.provides[implementation_id]
           interface == InterfaceBlob(interface_name)
           r == [reg EXCEPT !.todoP = @ \ {implementation_id},
                            !.todoC = InterfaceCmds(interface),
                            !.cur = implementation_id]
       IN  /\ calls' = GetInterface(interface_name)
           /\ IF interface.ok
              THEN reg' = r /\ mpc' = Flow(r) /\ UNCHANGED <<setResults, proc>>
              ELSE SetSubscriberPanics
    /\ UNCHANGED <<manifest_json, sub_impl, owners, disp, last, nDisp,
                   ready_fired, client, sent, done, nClient, dropped>>

ProvideCommand(name) ==
    /\ proc = "running" /\ mpc = "cmds"
    /\ name \in reg.todoC
    /\ LET r == [reg EXCEPT !.todoC = @ \ {name}]
       IN  /\ calls' = Append(calls, Call("provide_command", reg.cur, name, <<>>))
           /\ reg' = r
           /\ mpc' = Flow(r)
    /\ UNCHANGED <<manifest_json, sub_impl, owners, setResults, disp, last,
                   nDisp, ready_fired, client, sent, done, nClient, proc,
                   dropped>>

GetInterfaceRequires(implementation_id) ==
    /\ proc = "running" /\ mpc = "requires"
    /\ implementation_id \in reg.todoR
    /\ LET interface_name == manifest_json.requires[implementation_id]
           interface == InterfaceBlob(interface_name)
           r == [reg EXCEPT !.todoR = @ \ {implementation_id},
                            !.todoV = InterfaceVars(interface),
                            !.cur = implementation_id]
       IN  /\ calls' = GetInterface(interface_name)
           /\ IF interface.ok
              THEN reg' = r /\ mpc' = Flow(r) /\ UNCHANGED <<setResults, proc>>
              ELSE SetSubscriberPanics
    /\ UNCHANGED <<manifest_json, sub_impl, owners, disp, last, nDisp,
                   ready_fired, client, sent, done, nClient, dropped>>

SubscribeVariable(name) ==
    /\ proc = "running" /\ mpc = "vars"
    /\ name \in reg.todoV
    /\ LET r == [reg EXCEPT !.todoV = @ \ {name}]
       IN  /\ calls' = Append(calls, Call("subscribe_variable", reg.cur, name, <<>>))
           /\ reg' = r
           /\ mpc' = Flow(r)
    /\ UNCHANGED <<manifest_json, sub_impl, owners, setResults, disp, last,
                   nDisp, ready_fired, client, sent, done, nClient, proc,
                   dropped>>

SignalReady ==
    /\ proc = "running" /\ mpc = "signal_ready"
    /\ calls' = Append(calls, Call("signal_ready", "-", "-", <<>>))
    /\ mpc' = "idle"
    /\ reg' = NoReg
    /\ setResults' = Append(setResults, "bound")
    /\ UNCHANGED <<manifest_json, sub_impl, owners, disp, last, nDisp,
                   ready_fired, client, sent, done, nClient, proc, dropped>>

\* The owner of the bound handler drops its Arc.  (A handler that is not
\* bound is never upgraded, and none is once the Runtime is dropped, so
\* nothing observes its release then.)
OwnerRelease(h) ==
    /\ proc = "running" /\ dropped = {}
    /\ h \in owners /\ h = sub_impl
    /\ owners' = owners \ {h}
    /\ UNCHANGED <<manifest_json, sub_impl, mpc, reg, calls, setResults, disp,
                   last, nDisp, ready_fired, client, sent, done, nClient, proc,
                   dropped>>

(***************************************************************************)
(* The Runtime is dropped: it has no Drop of its own, so its fields are     *)
(* dropped one after the other in the order the struct declares them.  The  *)
(* owner can drop it when it is in none of its methods; the C++ module      *)
(* outlives every callback it delivers, so none is running when it goes.    *)
(***************************************************************************)
DropOrderHandlerFirst == <<"sub_impl", "cpp_module">>

DropOrder == <<"cpp_module", "sub_impl">>

Drop ==
    /\ proc = "running" /\ mpc = "idle"
    /\ \A t \in Threads : disp[t].pc = "idle"
    /\ Cardinality(dropped) < Len(DropOrder)
    /\ dropped' = dropped \cup {DropOrder[Cardinality(dropped) + 1]}
    /\ UNCHANGED <<manifest_json, sub_impl, owners, mpc, reg, calls, setResults,
                   disp, last, nDisp, ready_fired, client, sent, done, nClient,
                   proc>>

(***************************************************************************)
(* The C++ module (everestrs_sys): which callbacks it delivers.  It calls   *)
(* back only what it was told to register, with any payload, and only as    *)
(* long as it exists.                                                       *)
(***************************************************************************)
Registered(op) ==
    {<<calls[i].impl, calls[i].name>> : i \in {j \in 1..Len(calls) : calls[j].op = op}}

Issued(op) == \E i \in 1..Len(calls) : calls[i].op = op

Delivers(kind, implementation_id, name) ==
    /\ "cpp_module" \notin dropped
    /\ CASE kind = "command"  -> <<implementation_id, name>> \in Registered("provide_command")
         [] kind = "variable" -> <<implementation_id, name>> \in Registered("subscribe_variable")
         [] kind = "ready"    -> Issued("signal_ready") /\ ~ready_fired

(***************************************************************************)
(* The callbacks of the Runtime: on_ready, handle_command, handle_variable. *)
(* A panic that reaches the extern "Rust" boundary aborts the process.      *)
(***************************************************************************)
\* self.sub_impl.as_ref().unwrap().upgrade().unwrap(); "None" when an unwrap panics.
GetSub == IF sub_impl # "None" /\ Alive(sub_impl) THEN sub_impl ELSE "None"

\* The (implementation_id, name) handle_command and handle_variable pass on.
MetaSwapped(implementation_id, name) == [impl |-> name, name |-> implementation_id]

MetaArgs(implementation_id, name) == [impl |-> implementation_id, name |-> name]

\* ffi::JsonBlob::from_vec(serde_json::to_vec(&blob).unwrap())
ResponseDefault(blob) == ToVec(JNull)

Response(blob) == ToVec(blob)

Delivery(kind, implementation_id, name, json) ==
    [IdleDisp EXCEPT !.kind = kind, !.impl = implementation_id, !.name = name,
                     !.json = json]

\* The callback d of thread t ends: the thread is free again, and the Arc
\* that get_sub returned, a temporary of the callback, is dropped.
EndsHoldingSub(t, d) ==
    /\ disp' = [disp EXCEPT ![t] = [IdleDisp EXCEPT !.sub = d.sub]]
    /\ last' = [d EXCEPT !.pc = "idle"]

Ends(t, d) ==
    /\ disp' = [disp EXCEPT ![t] = IdleDisp]
    /\ last' = [d EXCEPT !.pc = "idle"]

Returns(t, d) == Ends(t, [d EXCEPT !.out = "returned"]) /\ UNCHANGED proc

Aborts(t, d) == Ends(t, [d EXCEPT !.out = "panic"]) /\ proc' = "aborted"

\* Threads are interchangeable: a callback is delivered on the first free one.
Free(t) ==
    /\ proc = "running" /\ disp[t].pc = "idle"
    /\ t = "t1" \/ disp["t1"].pc # "idle"

HandleCommand(t, implementation_id, name, json) ==
    /\ Free(t)
    /\ Delivers("command", implementation_id, name)
    /\ nDisp' = nDisp + 1
    /\ LET d == Delivery("command", implementation_id, name, json)
           sub == GetSub
           parameters == FromSliceMap(json)
           meta == MetaArgs(implementation_id, name)
       IN  IF sub = "None" \/ ~parameters.ok
           THEN Aborts(t, d)
           ELSE /\ disp' = [disp EXCEPT ![t] =
                       [d EXCEPT !.pc = "handler", !.sub = sub, !.himpl = meta.impl,
                                 !.hname = meta.name, !.hmap = parameters.map,
                                 !.ninv = 1, !.out = "running"]]
                /\ UNCHANGED <<last, proc>>
    /\ UNCHANGED <<manifest_json, sub_impl, owners, mpc, reg, calls, setResults,
                   ready_fired, client, sent, done, nClient, dropped>>

\* The user's handle_command returns res; the Err of a domain failure is unwrapped.
HandleCommandReturn(t, res) ==
    /\ proc = "running" /\ disp[t].pc = "handler" /\ disp[t].kind = "command"
    /\ IF res.ok
       THEN Returns(t, [disp[t] EXCEPT !.hres = res, !.ret = Response(res.v)])
       ELSE Aborts(t, [disp[t] EXCEPT !.hres = res])
    /\ UNCHANGED <<manifest_json, sub_impl, owners, mpc, reg, calls, setResults,
                   nDisp, ready_fired, client, sent, done, nClient, dropped>>

HandleVariable(t, implementation_id, name, json) ==
    /\ Free(t)
    /\ Delivers("variable", implementation_id, name)
    /\ nDisp' = nDisp + 1
    /\ LET d == Delivery("variable", implementation_id, name, json)
           sub == GetSub
           value == FromSlice(json)
           meta == MetaArgs(implementation_id, name)
       IN  IF sub = "None" \/ ~value.ok
           THEN Aborts(t, d)
           ELSE /\ disp' = [disp EXCEPT ![t] =
                       [d EXCEPT !.pc = "handler", !.sub = sub, !.himpl = meta.impl,
                                 !.hname = meta.name, !.hval = value.v,
                                 !.ninv = 1, !.out = "running"]]
                /\ UNCHANGED <<last, proc>>
    /\ UNCHANGED <<manifest_json, sub_impl, owners, mpc, reg, calls, setResults,
                   ready_fired, client, sent, done, nClient, dropped>>

\* The user's handle_variable returns res (Result<()>), which is unwrapped.
HandleVariableReturn(t, res) ==
    /\ proc = "running" /\ disp[t].pc = "handler" /\ disp[t].kind = "variable"
    /\ IF res.ok
       THEN Returns(t, [disp[t] EXCEPT !.hres = res])
       ELSE Aborts(t, [disp[t] EXCEPT !.hres = res])
    /\ UNCHANGED <<manifest_json, sub_impl, owners, mpc, reg, calls, setResults,
                   nDisp, ready_fired, client, sent, done, nClient, dropped>>

\* on_ready, with the Subscriber's default on_ready, which does nothing.
OnReady(t) ==
    /\ Free(t)
    /\ Delivers("ready", "-", "-")
    /\ ready_fired' = TRUE
    /\ LET d == Delivery("ready", "-", "-", <<>>)
           sub == GetSub
       IN  IF sub = "None"
           THEN Aborts(t, d)
           ELSE Returns(t, [d EXCEPT !.sub = sub, !.ninv = 1])
    /\ UNCHANGED <<manifest_json, sub_impl, owners, mpc, reg, calls, setResults,
                   nDisp, client, sent, done, nClient, dropped>>

(***************************************************************************)
(* Runtime::publish_variable and Runtime::call_command, called by the user  *)
(* code on its own thread or from inside a handler.                         *)
(***************************************************************************)
\* The caller is running user code that holds a &Runtime.  No lock is taken:
\* the methods take &self and use cpp_module only.
CanCallExclusive(c) ==
    /\ proc = "running" /\ nClient < MaxClient
    /\ c = "main" /\ mpc = "idle" /\ dropped = {}
    /\ \A t \in Threads : disp[t].pc = "idle"

CanCall(c) ==
    /\ proc = "running" /\ nClient < MaxClient
    /\ IF c = "main" THEN mpc = "idle" /\ dropped = {} ELSE disp[c].pc = "handler"

\* ffi::JsonBlob::from_vec(serde_json::to_vec(..))
BlobDebug(v) == IF v.k = "str" THEN v.s ELSE ToVec(v)

Blob(v) == ToVec(v)

PublishVariable(c, p) ==
    /\ CanCall(c)
    /\ sent' = Append(sent, Call("publish_variable", p.impl, p.name, Blob(p.val)))
    /\ done' = [NoClient EXCEPT !.op = "publish_variable", !.impl = p.impl,
                                !.name = p.name, !.val = p.val, !.st = "returned"]
    /\ nClient' = nClient + 1
    /\ UNCHANGED <<manifest_json, sub_impl, owners, mpc, reg, calls, setResults,
                   disp, last, nDisp, ready_fired, client, proc, dropped>>

\* Caller c moves on: the owning thread in mpc, a C++ thread in its disp pc
\* (ncall counts the call_command calls its handler has made).
Goes(c, pc) ==
    IF c = "main"
    THEN mpc' = pc /\ UNCHANGED disp
    ELSE /\ disp' = [disp EXCEPT ![c].pc = pc,
                                 ![c].ncall = IF pc = "call_wait" THEN 1 ELSE @]
         /\ UNCHANGED mpc

CallCommand(c, p) ==
    /\ CanCall(c)
    /\ sent' = Append(sent, Call("call_command", p.impl, p.name, Blob(p.val)))
    /\ client' = [client EXCEPT ![c] =
           [NoClient EXCEPT !.op = "call_command", !.impl = p.impl,
                            !.name = p.name, !.val = p.val, !.st = "pending"]]
    /\ nClient' = nClient + 1
    /\ Goes(c, "call_wait")
    /\ UNCHANGED <<manifest_json, sub_impl, owners, reg, calls, setResults, last,
                   nDisp, ready_fired, done, proc, dropped>>

\* The C++ call returns return_value; serde_json::from_slice(..).unwrap().
CallCommandReturn(c, return_value) ==
    /\ proc = "running"
    /\ IF c = "main" THEN mpc = "call_wait" ELSE disp[c].pc = "call_wait"
    /\ client' = [client EXCEPT ![c] = NoClient]
    /\ LET r == FromSlice(return_value)
           call == [client[c] EXCEPT !.blob = return_value]
       IN  IF r.ok
           THEN /\ done' = [call EXCEPT !.st = "returned", !.ret = r.v]
                /\ Goes(c, IF c = "main" THEN "idle" ELSE "handler")
                /\ UNCHANGED <<last, proc>>
           ELSE /\ done' = [call EXCEPT !.st = "panic"]
                /\ IF c = "main"
                   THEN mpc' = "idle" /\ MainPanic /\ UNCHANGED <<disp, last>>
                   ELSE Aborts(c, disp[c]) /\ UNCHANGED mpc
    /\ UNCHANGED <<manifest_json, sub_impl, owners, reg, calls, setResults, nDisp,
                   ready_fired, sent, nClient, dropped>>

\* The steps of set_subscriber and the release of the handler by its owner.
Binding ==
    \/ \E h \in Handlers : SetSubscriber(h)
    \/ Initialize
    \/ \E i \in DOMAIN manifest_json.provides : GetInterfaceProvides(i)
    \/ \E n \in reg.todoC : ProvideCommand(n)
    \/ \E i \in DOMAIN manifest_json.requires : GetInterfaceRequires(i)
    \/ \E n \in reg.todoV : SubscribeVariable(n)
    \/ SignalReady
    \/ \E h \in Handlers : OwnerRelease(h)

\* The callbacks, when the C++ module delivers at most max command and
\* variable callbacks in all.
Dispatch(max) ==
    \/ /\ nDisp < max
       /\ \E t \in Threads, key \in Registered("provide_command"), json \in Payloads :
              HandleCommand(t, key[1], key[2], json)
    \/ \E t \in Threads, res \in HandlerResults : HandleCommandReturn(t, res)
    \/ /\ nDisp < max
       /\ \E t \in Threads, key \in Registered("subscribe_variable"), json \in Payloads :
              HandleVariable(t, key[1], key[2], json)
    \/ \E t \in Threads, res \in {ROk(JNull)} \cup {RErr(e) : e \in Errors} :
           HandleVariableReturn(t, res)
    \/ \E t \in Threads : OnReady(t)

Next ==
    \/ Binding
    \/ Dispatch(MaxDispatch)
    \/ Drop
    \/ \E c \in Callers, p \in Publishes : PublishVariable(c, p)
    \/ \E c \in Callers, p \in Commands : CallCommand(c, p)
    \/ \E c \in Callers, return_value \in Responses : CallCommandReturn(c, return_value)

Spec == Init /\ [][Next]_vars

\* The Runtime under callbacks only, with room for two of them at a time.
NextConcurrent ==
    \/ Binding
    \/ Dispatch(MaxConcurrent)

SpecConcurrent == Init /\ [][NextConcurrent]_vars

(***************************************************************************)
(* What the manifest asks to be registered.                                 *)
(***************************************************************************)
ExpectedCmds ==
    UNION {{<<i, c>> : c \in InterfaceBlob(manifest_json.provides[i]).cmds} :
             i \in DOMAIN manifest_json.provides}

ExpectedVars ==
    UNION {{<<i, v>> : v \in InterfaceBlob(manifest_json.requires[i]).vars} :
             i \in DOMAIN manifest_json.requires}

Count(log, op) == Cardinality({i \in 1..Len(log) : log[i].op = op})

Results(outcome) == Cardinality({i \in 1..Len(setResults) : setResults[i] = outcome})

\* The callbacks in progress and the one that ended last.
Dispatches == {disp[t] : t \in Threads} \cup {last}

(***************************************************************************)
(* C1  Exactly-once binding.  Once sub_impl is set it never changes, and    *)
(* every callback reaches that handler; a set_subscriber call that finishes *)
(* after an earlier one reports "noop", not an error, and changes nothing:   *)
(* no call on cpp_module is made once a set_subscriber call has finished.   *)
(***************************************************************************)
C1_ExactlyOnceBinding ==
    [][ /\ sub_impl # "None" => sub_impl' = sub_impl
        /\ \A t \in Threads : disp'[t].sub \in {"None", sub_impl'}
        /\ last'.sub \in {"None", sub_impl'}
        /\ (Len(setResults) >= 1 /\ setResults' # setResults)
              => /\ setResults' = Append(setResults, "noop")
                 /\ UNCHANGED <<sub_impl, calls, sent, disp, last, owners, proc>>
        /\ Len(setResults) >= 1 => calls' = calls ]_vars

C1_Witness ==
    /\ setResults = <<"bound", "noop">>
    /\ sub_impl = "h1"
    /\ disp["t1"].pc = "handler" /\ disp["t1"].sub = "h1"

(***************************************************************************)
(* C2  Readiness ordering.  signal_ready is called once for each binding    *)
(* that succeeded and for no other; when it is called every provide_command *)
(* and subscribe_variable the manifest asks for has been issued; and no     *)
(* registration call follows it.                                            *)
(***************************************************************************)
C2_ReadinessOrdering ==
    /\ Count(calls, "signal_ready") = Results("bound")
    /\ Count(calls, "signal_ready") <= 1
    /\ Issued("signal_ready")
          => /\ ExpectedCmds \subseteq Registered("provide_command")
             /\ ExpectedVars \subseteq Registered("subscribe_variable")
    /\ \A i \in 1..Len(calls) : \A j \in 1..Len(calls) :
          (i < j /\ calls[i].op = "signal_ready")
             => calls[j].op \notin {"provide_command", "subscribe_variable"}

C2_Witness ==
    /\ Issued("signal_ready")
    /\ Registered("provide_command") # {}
    /\ Registered("subscribe_variable") # {}
    /\ calls[Len(calls)].op = "signal_ready"

(***************************************************************************)
(* C3  Command registration completeness.  provide_command is only ever     *)
(* called with a key (I, C), I in provides and C in the cmds of I's         *)
(* interface, and after a successful binding it was called for each of      *)
(* them.                                                                    *)
(***************************************************************************)
C3_CommandRegistration ==
    /\ Registered("provide_command") \subseteq ExpectedCmds
    /\ "bound" \in {setResults[i] : i \in 1..Len(setResults)}
          => Registered("provide_command") = ExpectedCmds

C3_Witness ==
    /\ setResults = <<"bound">>
    /\ Registered("provide_command") = {<<"charger", "start">>, <<"charger", "stop">>}

(***************************************************************************)
(* C4  Variable subscription completeness.  subscribe_variable is only ever *)
(* called with a key (I, V), I in requires and V in the vars of I's         *)
(* interface, and after a successful binding it was called for each of      *)
(* them.                                                                    *)
(***************************************************************************)
C4_VariableSubscription ==
    /\ Registered("subscribe_variable") \subseteq ExpectedVars
    /\ "bound" \in {setResults[i] : i \in 1..Len(setResults)}
          => Registered("subscribe_variable") = ExpectedVars

C4_Witness ==
    /\ setResults = <<"bound">>
    /\ Registered("subscribe_variable") = {<<"grid", "reading">>}
    /\ Registered("provide_command") = {<<"meter_a", "reset">>, <<"meter_b", "reset">>}

Bound == "bound" \in {setResults[i] : i \in 1..Len(setResults)}

\* Command callbacks whose payload is the encoding of an argument mapping.
CommandDispatches ==
    {d \in Dispatches : d.kind = "command" /\ FromSliceMap(d.json).ok}

\* The handler of d was called once, with d's key and the decoded arguments.
Routed(d) ==
    /\ d.ninv = 1
    /\ d.sub = sub_impl
    /\ d.himpl = d.impl /\ d.hname = d.name
    /\ d.hmap = FromSliceMap(d.json).map

C6_FailureReturned ==
    (last.kind = "command" /\ last.hres.err \in Errors)
       => /\ last.out = "returned"
          /\ proc = "running"
          /\ ~FromSlice(last.ret).ok

(***************************************************************************)
(* C7  Variable failure isolation, as claimed: when handle_variable of the  *)
(* handler returns an error, the delivering thread and the process keep     *)
(* running.                                                                 *)
(***************************************************************************)
C7_VariableFailureIsolated ==
    (last.kind = "variable" /\ last.hres.err \in Errors) => proc = "running"

(***************************************************************************)
(* C8  Command response fidelity.  Whenever handle_command of the handler   *)
(* returns Ok(v), the payload the callback returns decodes to v.            *)
(***************************************************************************)
C8_ResponseFidelity ==
    (last.kind = "command" /\ last.hres.ok)
       => /\ last.out = "returned"
          /\ FromSlice(last.ret).ok
          /\ FromSlice(last.ret).v = last.hres.v

C8_Witness ==
    /\ last.kind = "command" /\ last.impl = "charger" /\ last.name = "start"
    /\ last.hres = ROk(JInt(42))
    /\ last.ret = <<"4", "2">>

(***************************************************************************)
(* C9  Publish forwarding.  A publish_variable(I, N, v) call is one step    *)
(* that adds one publish_variable call with I, N and a payload that decodes *)
(* to v to the calls made on cpp_module; it has returned when the step is   *)
(* over, and the step changes neither the handler slot, nor what is         *)
(* registered, nor any callback.                                            *)
(***************************************************************************)
C9_PublishForwarding ==
    [][ (nClient' = nClient + 1 /\ client' = client)
           => /\ done'.op = "publish_variable" /\ done'.st = "returned"
              /\ Len(sent') = Len(sent) + 1
              /\ SubSeq(sent', 1, Len(sent)) = sent
              /\ LET call == sent'[Len(sent')]
                 IN  /\ call.op = "publish_variable"
                     /\ call.impl = done'.impl /\ call.name = done'.name
                     /\ FromSlice(call.blob).ok
                     /\ FromSlice(call.blob).v = done'.val
              /\ UNCHANGED <<sub_impl, owners, mpc, reg, calls, setResults, disp,
                             last, nDisp, ready_fired, proc>> ]_vars

C9_Witness ==
    /\ Bound /\ sub_impl = "h1"
    /\ done.op = "publish_variable"
    /\ done.impl = "charger" /\ done.name = "status" /\ done.val = JStr(Charging)
    /\ sent = <<Call("publish_variable", "charger", "status",
                     <<"\"">> \o Charging \o <<"\"">>)>>

(***************************************************************************)
(* C10  Re-entrant remote call.  A call_command(I, N, args) call adds one   *)
(* call_command with I, N and a payload that decodes to args to the calls   *)
(* made on cpp_module, and what it returns is the decoding of the response. *)
(* A handler that runs inside a callback can always make the call, the call *)
(* can always return, and when it has returned the callback is where it was *)
(* and can return normally.                                                 *)
(***************************************************************************)
C10_ReentrantCall ==
    [][ /\ (nClient' = nClient + 1 /\ client' # client)
           => /\ Len(sent') = Len(sent) + 1
              /\ SubSeq(sent', 1, Len(sent)) = sent
              /\ \E c \in Callers :
                    LET call == sent'[Len(sent')]
                    IN  /\ client' = [client EXCEPT ![c] = client'[c]]
                        /\ client'[c].st = "pending"
                        /\ call.op = "call_command"
                        /\ call.impl = client'[c].impl /\ call.name = client'[c].name
                        /\ FromSlice(call.blob).ok
                        /\ FromSlice(call.blob).v = client'[c].val
        /\ \A c \in Callers :
              (client[c].st = "pending" /\ client'[c].st = "none" /\ FromSlice(done'.blob).ok)
                 => /\ done'.op = "call_command" /\ done'.st = "returned"
                    /\ done'.impl = client[c].impl /\ done'.name = client[c].name
                    /\ done'.ret = FromSlice(done'.blob).v
                    /\ sent' = sent
                    /\ c \in Threads =>
                          disp' = [disp EXCEPT ![c].pc = "handler"] /\ proc' = proc
        /\ \A t \in Threads :
              /\ (proc = "running" /\ disp[t].pc = "handler" /\ nClient < MaxClient)
                    => ENABLED (\E p \in Commands : CallCommand(t, p))
              /\ (proc = "running" /\ disp[t].pc = "call_wait")
                    => ENABLED (\E r \in Responses : CallCommandReturn(t, r))
              /\ (proc = "running" /\ disp[t].pc = "handler" /\ disp[t].kind = "command")
                    => ENABLED HandleCommandReturn(t, ROk(JInt(42))) ]_vars

C10_Witness ==
    /\ last.kind = "command" /\ last.out = "returned" /\ last.ncall = 1
    /\ done.op = "call_command" /\ done.st = "returned"
    /\ done.ret = JStr(<<"o", "k">>)
    /\ sent = <<Call("call_command", "grid", "reset",
                     ToVec(JObj(<<Member(<<"x">>, JInt(7))>>)))>>

\* The payload of callback d decodes to what its handler takes.
Decodable(d) ==
    IF d.kind = "command" THEN FromSliceMap(d.json).ok ELSE FromSlice(d.json).ok

(***************************************************************************)
(* C11  Concurrent dispatch safety, as claimed: on a bound Runtime whose    *)
(* handler is held by its owner, when a command or variable callback with a *)
(* decodable payload has ended while a callback for another key is in       *)
(* progress on another thread, the one that ended has returned after one    *)
(* call of the handler with its own key, a command with the encoding of     *)
(* what its handler returned, and the one in progress can still complete:   *)
(* the process is running.  It fails when the handler of the first returns  *)
(* an error: the unwrap panics and the process aborts under the second.     *)
(***************************************************************************)
C11_ConcurrentDispatch ==
    \A t \in Threads :
       (/\ Bound /\ sub_impl \in owners
        /\ disp[t].pc # "idle"
        /\ last.kind \in {"command", "variable"} /\ Decodable(last)
        /\ <<last.impl, last.name>> # <<disp[t].impl, disp[t].name>>)
          => /\ proc = "running"
             /\ last.out = "returned" /\ last.ninv = 1
             /\ last.himpl = last.impl /\ last.hname = last.name
             /\ last.kind = "command" => FromSlice(last.ret).v = last.hres.v

(***************************************************************************)
(* C12  Single initialization.  Whatever set_subscriber calls are made,     *)
(* initialize is called at most once on cpp_module, it is the first call    *)
(* made on cpp_module, and it has been called once as soon as the first     *)
(* set_subscriber call is past it.                                          *)
(***************************************************************************)
C12_SingleInitialization ==
    /\ Count(calls, "initialize") <= 1
    /\ calls # <<>> => calls[1].op = "initialize"
    /\ (sub_impl # "None" /\ mpc # "initialize") => Count(calls, "initialize") = 1

C12_Witness ==
    /\ Len(setResults) = 2 /\ setResults[1] = "panic"
    /\ calls = <<Call("initialize", "-", "-", <<>>)>>

\* The interface names the manifest binds its entries to.
InterfaceNames ==
    {manifest_json.provides[i] : i \in DOMAIN manifest_json.provides}
       \cup {manifest_json.requires[i] : i \in DOMAIN manifest_json.requires}

\* The get_interface calls made with interface name n.
Lookups(n) ==
    Cardinality({i \in 1..Len(calls) :
                   calls[i].op = "get_interface" /\ calls[i].name = n})

\* The entries of provides and of requires bound to n, among those of ps and rs.
EntriesOf(n, ps, rs) ==
    Cardinality({i \in ps : manifest_json.provides[i] = n})
       + Cardinality({i \in rs : manifest_json.requires[i] = n})

Entries(n) == EntriesOf(n, DOMAIN manifest_json.provides, DOMAIN manifest_json.requires)

C14_DecodeFailureSurfaced ==
    (last.kind = "command" /\ ~FromSliceMap(last.json).ok)
       => /\ last.out = "returned"
          /\ proc = "running"
          /\ last.ninv = 0
          /\ ~FromSlice(last.ret).ok

\* The manifest, or the interface of one of its entries, does not decode.
DecodeFails == ~manifest_json.ok \/ \E n \in InterfaceNames : ~InterfaceBlob(n).ok

(***************************************************************************)
(* C15  Fatal startup fault without partial registration, as claimed: when  *)
(* the manifest or the interface of an entry does not decode, signal_ready  *)
(* is never called, the set_subscriber call ends in the failure and not as  *)
(* a binding, and once it has ended no provide_command and no               *)
(* subscribe_variable registration is left with cpp_module.  It fails: the  *)
(* registrations made before the entry that does not decode stay.           *)
(***************************************************************************)
C15_NoPartialRegistration ==
    DecodeFails
       => /\ ~Issued("signal_ready")
          /\ Len(setResults) >= 1 =>
                /\ setResults[1] = "panic"
                /\ Registered("provide_command") = {}
                /\ Registered("subscribe_variable") = {}

UnboundState == sub_impl = "None" /\ calls = <<>>

BoundState ==
    /\ sub_impl # "None"
    /\ manifest_json.ok /\ Issued("initialize")
    /\ Registered("provide_command") = ExpectedCmds
    /\ Registered("subscribe_variable") = ExpectedVars
    /\ Issued("signal_ready")

(***************************************************************************)
(* C17  Two-state binding machine, as claimed: whenever the owning thread   *)
(* is not inside set_subscriber, the Runtime is Unbound or Bound.  It fails *)
(* after a set_subscriber call that panicked: sub_impl is set, and the      *)
(* registration is incomplete and stays so.                                 *)
(***************************************************************************)
C17_TwoStates ==
    mpc \in {"idle", "call_wait"} => UnboundState \/ BoundState

(***************************************************************************)
(* C18  Registration uniqueness.  In every reachable state, whatever        *)
(* set_subscriber calls were made, cpp_module was asked at most once to     *)
(* register a command under a key (implementation_id, name), and at most    *)
(* once to subscribe a variable under a key.                                *)
(***************************************************************************)
C18_RegistrationUniqueness ==
    \A i \in 1..Len(calls) : \A j \in 1..Len(calls) :
       (/\ calls[i].op \in {"provide_command", "subscribe_variable"}
        /\ calls[i].op = calls[j].op
        /\ calls[i].impl = calls[j].impl /\ calls[i].name = calls[j].name)
          => i = j

C18_Witness ==
    /\ setResults = <<"bound", "noop">>
    /\ Count(calls, "provide_command") = 2 /\ Count(calls, "subscribe_variable") = 1
    /\ Registered("provide_command") = {<<"meter_a", "reset">>, <<"meter_b", "reset">>}
    /\ Registered("subscribe_variable") = {<<"grid", "reading">>}

(***************************************************************************)
(* C19  Non-owning handler reference.  A thread holds an Arc of the handler *)
(* only while it is inside a callback, and then of the bound handler; when  *)
(* no callback is in progress the handler is alive exactly as long as its   *)
(* owner holds it, and once the owner has released it get_sub finds it      *)
(* gone.                                                                    *)
(***************************************************************************)
C19_NonOwningReference ==
    /\ \A t \in Threads :
          disp[t].sub # "None" => disp[t].pc # "idle" /\ disp[t].sub = sub_impl
    /\ (\A t \in Threads : disp[t].pc = "idle")
          => /\ \A h \in Handlers : Alive(h) <=> h \in owners
             /\ sub_impl \notin owners => GetSub = "None"

C19_Witness ==
    /\ sub_impl = "h1" /\ "h1" \notin owners /\ ~Alive("h1")
    /\ \A t \in Threads : disp[t].pc = "idle"
    /\ nDisp = 1
    /\ last.kind = "ready" /\ last.out = "panic"

(***************************************************************************)
(* C20  Handler published before any callback can fire.  sub_impl is set    *)
(* when set_subscriber calls initialize and whenever any call was made on   *)
(* cpp_module, so whenever cpp_module holds a registered callback or was    *)
(* signalled ready; a callback in progress holds the bound handler; and a   *)
(* callback that panicked in get_sub did so because the owner had released  *)
(* the handler, never because the slot was unset.                           *)
(***************************************************************************)
C20_HandlerPublishedFirst ==
    /\ mpc = "initialize" => sub_impl # "None"
    /\ calls # <<>> => sub_impl # "None"
    /\ (\/ Registered("provide_command") # {}
        \/ Registered("subscribe_variable") # {}
        \/ Issued("signal_ready")) => sub_impl # "None"
    /\ \A t \in Threads :
          disp[t].pc # "idle" => disp[t].sub # "None" /\ disp[t].sub = sub_impl
    /\ \A d \in Dispatches :
          (d.out = "panic" /\ d.ninv = 0 /\ (d.kind = "ready" \/ Decodable(d)))
             => sub_impl \in Handlers \ owners

C20_Witness ==
    /\ mpc = "cmds" /\ reg.todoC = {"stop"} /\ ~Issued("signal_ready")
    /\ sub_impl = "h1"
    /\ disp["t1"].pc = "handler" /\ disp["t1"].sub = "h1"
    /\ disp["t1"].impl = "charger" /\ disp["t1"].name = "start"

====
